---- MODULE Spec2Model ----
(***************************************************************************)
(* A model of src/app.py, the Streamlit + PySpark bookstore dashboard.     *)
(*                                                                         *)
(* One process serves script runs.  Every run executes the script top to   *)
(* bottom: load_data() behind st.cache_data, the emptiness check with      *)
(* st.stop(), the sidebar radio and the if/elif chain of the seven views.  *)
(* An action of this model is one whole script run for one selection of    *)
(* the widgets.                                                            *)
(*                                                                         *)
(* Encoding of values.  A string is a sequence of one-character strings.   *)
(* A missing cell is NullStr in a string column and NullNum in a numeric   *)
(* column.  average_rating is kept in tenths (45 is 4.5).  A table is      *)
(* [cols |-> set of column names, rows |-> sequence of rows]; the cells of *)
(* a column that is not in cols are filled with the null of the column.    *)
(* spark.createDataFrame(pdf) is taken to keep rows, row order and columns *)
(* and to carry a missing cell as a Spark null.                            *)
(***************************************************************************)
EXTENDS Integers, Sequences, FiniteSets, TLC

\* ------------------------------------------------------------------ bounds
MaxRows == 3
MaxLen == 2
MaxLimit == 3

\* --------------------------------------------------------- program constants
\* pdf.head(10), new_df.limit(10)
PreviewRows == 10
\* df.orderBy(desc("average_rating")).limit(20)
TopLimit == 20
\* top_books.limit(10)
ChartLimit == 10
\* ...orderBy(desc("book_count")).limit(10)
AuthorsLimit == 10
\* results.limit(20)
SearchLimit == 20

\* ------------------------------------------------------------------ values
NullStr == <<"<null>">>
NullNum == -1

Alphabet == {"a", "%", "_", "\\"}

\* The non-empty strings of at most n characters (read_csv reads an empty cell
\* as missing, so a loaded string cell is never the empty string).
CellStrings(n) == UNION {[1..m -> Alphabet] : m \in 1..n}

\* What a text widget can hold: the empty string (its default) or any string.
InputStrings(n) == {<< >>} \cup CellStrings(n)

Min(a, b) == IF a < b THEN a ELSE b

Range(s) == {s[i] : i \in DOMAIN s}

\* ------------------------------------------------------------------ tables
AllCols == {"title", "authors", "average_rating", "ratings_count"}

NullOf(c) == IF c \in {"title", "authors"} THEN NullStr ELSE NullNum

Row(t, a, r, n) ==
    [title |-> t, authors |-> a, average_rating |-> r, ratings_count |-> n]

\* A table with the columns cs: the cells of the other columns are blanked.
Table(cs, rs) ==
    [cols |-> cs,
     rows |-> [i \in DOMAIN rs |->
                 [c \in AllCols |-> IF c \in cs THEN rs[i][c] ELSE NullOf(c)]]]

\* pd.DataFrame(): no columns, no rows.
EmptyFrame == [cols |-> {}, rows |-> << >>]

\* DataFrame.empty: any axis of length 0.
IsEmpty(t) == t.cols = {} \/ t.rows = << >>

\* DataFrame.head(n), DataFrame.limit(n): the first n rows.
Limit(rs, n) == SubSeq(rs, 1, Min(n, Len(rs)))

\* The i-th of a family of pairwise different titles.
TitleOf(i) == [j \in 1..i |-> "a"]

\* ------------------------------------------------ the CSV at the remote URL
\* Tables that exercise the search: one book, any title, authors present or not.
SearchCSVs ==
    {Table(AllCols, <<Row(t, a, 45, 7)>>) :
        t \in CellStrings(MaxLen) \cup {NullStr}, a \in {NullStr, <<"b">>}}

\* Tables that exercise the ranking: distinct titles, any ratings.
RatingCSVs ==
    UNION {{Table(AllCols, [i \in 1..n |-> Row(TitleOf(i), <<"a">>, r[i], 7)]) :
              r \in [1..n -> {NullNum, 30, 45}]} : n \in 1..MaxRows}

\* Tables that exercise the grouping: distinct titles, any authors.
AuthorCSVs ==
    UNION {{Table(AllCols, [i \in 1..n |-> Row(TitleOf(i), a[i], 50 - i, 7)]) :
              a \in [1..n -> {NullStr, <<"a">>, <<"b">>}]} : n \in 1..MaxRows}

\* Tables that exercise the schema: columns present or absent, header-only files.
Schemas ==
    {AllCols, AllCols \ {"ratings_count"}, AllCols \ {"average_rating"},
     AllCols \ {"average_rating", "ratings_count"}, AllCols \ {"authors"}}

SchemaCSVs ==
    UNION {{Table(cs, [i \in 1..n |->
                        Row(TitleOf(i), <<"b">>,
                            IF i = 1 THEN r ELSE 50 - i, c[i])]) :
              cs \in Schemas, r \in {NullNum, 49},
              c \in [1..n -> {NullNum, 7}]} : n \in 0..MaxRows}

\* The resource behind supabase_url: a CSV, or a fetch that fails (network
\* error, HTTP error, a body read_csv cannot parse).
Unavailable == [cols |-> {"<unavailable>"}, rows |-> << >>]

\* ------------------------------------------------------- Spark: Column.like
\* Column.like(p) is SQL LIKE with the escape character '\': in the pattern
\* '_' stands for any one character, '%' for any run of characters, and the
\* escape character makes a following '_', '%' or '\' literal; before any other
\* character, or at the end of the pattern, it is an error.
Wild(k) == [k |-> k, c |-> ""]

Lit(ch) == [k |-> "lit", c |-> ch]

RECURSIVE LikeValid(_)
LikeValid(p) ==
    IF p = << >> THEN TRUE
    ELSE IF Head(p) = "\\"
         THEN /\ Len(p) >= 2
              /\ p[2] \in {"_", "%", "\\"}
              /\ LikeValid(Tail(Tail(p)))
         ELSE LikeValid(Tail(p))

RECURSIVE LikeTokens(_)
LikeTokens(p) ==
    IF p = << >> THEN << >>
    ELSE IF Head(p) = "\\" /\ Len(p) >= 2
         THEN <<Lit(p[2])>> \o LikeTokens(Tail(Tail(p)))
         ELSE IF Head(p) = "_" THEN <<Wild("one")>> \o LikeTokens(Tail(p))
         ELSE IF Head(p) = "%" THEN <<Wild("any")>> \o LikeTokens(Tail(p))
         ELSE <<Lit(Head(p))>> \o LikeTokens(Tail(p))

\* The whole of s matches the tokens.
RECURSIVE TokensMatch(_, _)
TokensMatch(toks, s) ==
    IF toks = << >> THEN s = << >>
    ELSE IF Head(toks).k = "any"
         THEN \/ TokensMatch(Tail(toks), s)
              \/ (s # << >> /\ TokensMatch(toks, Tail(s)))
         ELSE IF Head(toks).k = "one"
         THEN s # << >> /\ TokensMatch(Tail(toks), Tail(s))
         ELSE /\ s # << >>
              /\ Head(s) = Head(toks).c
              /\ TokensMatch(Tail(toks), Tail(s))

\* SQL's three truth values: "T", "F" and "N" (null).  LIKE of a null is null.
Like(v, p) ==
    IF v = NullStr THEN "N"
    ELSE IF TokensMatch(LikeTokens(p), v) THEN "T" ELSE "F"

\* Column | Column.
Or3(x, y) ==
    IF x = "T" \/ y = "T" THEN "T"
    ELSE IF x = "N" \/ y = "N" THEN "N" ELSE "F"

\* f"%{search}%"
SearchPattern(search) == <<"%">> \o search \o <<"%">>

\* (col("title").like(...)) | (col("authors").like(...))
SearchCondition(row, search) ==
    Or3(Like(row.title, SearchPattern(search)),
        Like(row.authors, SearchPattern(search)))

\* DataFrame.filter(cond): the rows whose condition is true, in order.
RECURSIVE FilterRows(_, _)
FilterRows(rs, search) ==
    IF rs = << >> THEN << >>
    ELSE (IF SearchCondition(Head(rs), search) = "T" THEN <<Head(rs)>> ELSE << >>)
         \o FilterRows(Tail(rs), search)

\* ------------------------------------------------ Spark: orderBy and groupBy
\* The orderings of 1..n.
Perms(n) == {p \in [1..n -> 1..n] : \A i, j \in 1..n : p[i] = p[j] => i = j}

\* An ordering that puts the rows without a rating first.
DescKeyNullsFirst(v) == IF v = NullNum THEN 100 ELSE v

\* desc(c) is DESC NULLS LAST: nulls come after every value.
DescKey(v) == IF v = NullNum THEN -1 ELSE v

\* df.orderBy(desc("average_rating")): Spark promises the order of the keys and
\* nothing about rows with equal keys, so every ordering that respects the keys
\* is an outcome.
OrderByRatingDesc(rs) ==
    {[i \in 1..Len(rs) |-> rs[p[i]]] :
        p \in {q \in Perms(Len(rs)) :
                 \A i, j \in 1..Len(rs) :
                    i < j => DescKey(rs[q[i]].average_rating)
                               >= DescKey(rs[q[j]].average_rating)}}

\* df.orderBy(desc("average_rating")).limit(k), evaluated once.
TopByRating(rs, k) == {Limit(s, k) : s \in OrderByRatingDesc(rs)}

\* A grouping that leaves the rows without an author out.
AuthorGroupsNonNull(rs) ==
    {[authors |-> a,
      book_count |-> Cardinality({i \in DOMAIN rs : rs[i].authors = a})] :
        a \in {rs[i].authors : i \in DOMAIN rs} \ {NullStr}}

\* df.groupBy("authors").agg(count("*").alias("book_count")): one group per
\* distinct value of the column, null included; count("*") counts every row.
AuthorGroups(rs) ==
    {[authors |-> a,
      book_count |-> Cardinality({i \in DOMAIN rs : rs[i].authors = a})] :
        a \in {rs[i].authors : i \in DOMAIN rs}}

\* The sequences that list every element of the set S once.
Listings(S) ==
    {s \in [1..Cardinality(S) -> S] :
        \A i, j \in 1..Cardinality(S) : s[i] = s[j] => i = j}

\* ....orderBy(desc("book_count")).limit(k), evaluated once: any order among
\* groups of equal count.
TopAuthors(rs, k) ==
    {Limit(s, k) :
        s \in {l \in Listings(AuthorGroups(rs)) :
                 \A i, j \in DOMAIN l :
                    i < j => l[i].book_count >= l[j].book_count}}

\* ------------------------------------------------- Spark: the aggregates
RECURSIVE SumRatings(_)
SumRatings(rs) ==
    IF rs = << >> THEN 0
    ELSE (IF Head(rs).average_rating = NullNum THEN 0 ELSE Head(rs).average_rating)
         + SumRatings(Tail(rs))

\* count(col(c)): the rows whose c is not null.
CountNonNull(rs, c) == Cardinality({i \in DOMAIN rs : rs[i][c] # NullOf(c)})

\* avg(col("average_rating")) followed by f"{avg_rating:.2f}": the mean of the
\* non-null values in hundredths, rounded; NullNum (None) when there is none.
AvgRating(rs) ==
    LET n == CountNonNull(rs, "average_rating")
    IN  IF n = 0 THEN NullNum
        ELSE (SumRatings(rs) * 10 * 2 + n) \div (2 * n)

\* df.count()
TotalBooks(rs) == Len(rs)

\* df.select("authors").distinct().count(): null is one of the distinct values.
TotalAuthors(rs) == Cardinality({rs[i].authors : i \in DOMAIN rs})

\* The column used without asking whether the table has it.
BestsellerColUnchecked(cols) == "ratings_count"

\* "ratings_count" if "ratings_count" in df.columns else None
BestsellerCol(cols) == IF "ratings_count" \in cols THEN "ratings_count" ELSE "None"

\* str(df.select(count(col(bestseller_col)))...) if bestseller_col else "N/A"
BestsellerCount(t) ==
    IF BestsellerCol(t.cols) # "None"
    THEN ToString(CountNonNull(t.rows, BestsellerCol(t.cols)))
    ELSE "N/A"

\* ---------------------------------------------------------------- the state
VARIABLES
    remote,   \* what the URL serves: a table, or Unavailable
    cache,    \* st.cache_data's entry for load_data()
    fetches,  \* how many times pd.read_csv(supabase_url) was called
    pdf,      \* the script's global pdf after the last run
    df,       \* the script's global df after the last run
    out       \* what the last run put on the page

vars == <<remote, cache, fetches, pdf, df, out>>

\* A global the run never bound.
Unbound == [cols |-> {"<unbound>"}, rows |-> << >>]

NoFile == [cols |-> {"<no file>"}, rows |-> << >>]

NoCache == [filled |-> FALSE, value |-> EmptyFrame, failed |-> FALSE]

\* What a run shows.  page is the radio's value ("" when the run never reached
\* the radio), load the element load_data() emitted, taken the branches of the
\* if/elif chain the run executed, shown the elements the views rendered in
\* order, error the exception that ended the run ("" for none).
Blank ==
    [page |-> "", stopped |-> FALSE, fetched |-> FALSE, load |-> "",
     taken |-> {}, shown |-> << >>, error |-> "",
     preview |-> << >>, avg |-> NullNum, books |-> NullNum, best |-> "",
     search |-> << >>, results |-> << >>,
     top |-> << >>, chart |-> << >>,
     authorsTable |-> << >>, authorsChart |-> << >>,
     uploaded |-> NoFile, uploadPreview |-> << >>,
     name |-> << >>, feedback |-> << >>, pressed |-> FALSE, message |-> << >>]

\* An exception no handler catches: Streamlit shows it and ends the run; what
\* was rendered before stays.
Raise(o, e) == [o EXCEPT !.error = e, !.shown = @ \o <<"exception">>]

Show(o, elements) == [o EXCEPT !.shown = @ \o elements]

\* ---------------------------------------------------------------- load_data
\* The body of load_data(): read_csv, and on any exception st.error and an
\* empty DataFrame.
LoadDataBody(r) ==
    IF r = Unavailable
    THEN [value |-> EmptyFrame, failed |-> TRUE]
    ELSE [value |-> r, failed |-> FALSE]

\* A cache that keeps only the loads that succeeded: a failed fetch is retried
\* by the next run.
CachedLoadSuccessOnly(c, r) ==
    IF c.filled
    THEN [cache |-> c, fetched |-> FALSE]
    ELSE [cache |-> [filled |-> ~LoadDataBody(r).failed,
                     value |-> LoadDataBody(r).value,
                     failed |-> LoadDataBody(r).failed],
          fetched |-> TRUE]

\* @st.cache_data: a call with the entry filled returns the entry (and replays
\* the elements the body emitted); otherwise the body runs and its result,
\* whatever it is, fills the entry.
CachedLoad(c, r) ==
    IF c.filled
    THEN [cache |-> c, fetched |-> FALSE]
    ELSE [cache |-> [filled |-> TRUE,
                     value |-> LoadDataBody(r).value,
                     failed |-> LoadDataBody(r).failed],
          fetched |-> TRUE]

\* A script without the else branch: it never stops.
NeverStops(p) == FALSE

\* `if not pdf.empty: ... else: st.stop()`
Stops(p) == IsEmpty(p)

\* spark.createDataFrame(pdf)
CreateDataFrame(p) == [cols |-> p.cols, rows |-> [i \in DOMAIN p.rows |-> p.rows[i]]]

\* ---------------------------------------------------------------- the views
\* A radio whose fourth option is not the string its branch compares with.
NavOptionsTypo ==
    <<"Home", "Dashboard", "Search", "Top Rated", "Insights",
      "Upload Data", "Feedback">>

\* The options of st.sidebar.radio, in order.
NavOptions ==
    <<"Home", "Dashboard", "Search", "Top Rated Books", "Insights",
      "Upload Data", "Feedback">>

\* The string each branch of the if/elif chain compares page with, in order.
BranchKeys ==
    <<"Home", "Dashboard", "Search", "Top Rated Books", "Insights",
      "Upload Data", "Feedback">>

\* The branches a run with this page executes: in an if/elif chain, the first
\* whose comparison is true, and none when no comparison is.
Taken(page) ==
    {i \in DOMAIN BranchKeys :
        /\ BranchKeys[i] = page
        /\ \A j \in 1..(i - 1) : BranchKeys[j] # page}

HomeView(o) == Show(o, <<"title", "markdown">>)

DashboardView(o, p, d) ==
    LET o1 == [Show(o, <<"title", "subheader", "dataframe", "subheader">>)
                 EXCEPT !.preview = Limit(p.rows, PreviewRows)]
    IN  IF "average_rating" \notin d.cols
        THEN Raise(o1, "AnalysisException: average_rating")
        ELSE IF "authors" \notin d.cols
        THEN Raise(o1, "AnalysisException: authors")
        ELSE IF BestsellerCol(d.cols) \notin d.cols \cup {"None"}
        THEN Raise(o1, "AnalysisException: ratings_count")
        ELSE IF AvgRating(d.rows) = NullNum
        THEN Raise(o1, "TypeError: format None")
        ELSE [Show(o1, <<"metric", "metric", "metric">>)
                EXCEPT !.avg = AvgRating(d.rows),
                       !.books = TotalBooks(d.rows),
                       !.best = BestsellerCount(d)]

SearchView(o, d, search) ==
    LET o1 == [Show(o, <<"title", "text_input">>) EXCEPT !.search = search]
    IN  IF search = << >> THEN o1
        ELSE IF ~({"title", "authors"} \subseteq d.cols)
        THEN Raise(o1, "AnalysisException: column")
        ELSE IF ~LikeValid(SearchPattern(search))
        THEN Raise(Show(o1, <<"write">>), "AnalysisException: pattern")
        ELSE [Show(o1, <<"write", "dataframe">>)
                EXCEPT !.results = Limit(FilterRows(d.rows, search), SearchLimit)]

\* top_books is a lazy query: the table and the chart each evaluate it.
TopRatedView(o, d) ==
    LET o1 == Show(o, <<"title">>)
    IN  IF "average_rating" \notin d.cols
        THEN {Raise(o1, "AnalysisException: average_rating")}
        ELSE {LET o2 == [Show(o1, <<"dataframe", "subheader">>) EXCEPT !.top = t]
              IN  IF "title" \notin d.cols
                  THEN Raise(o2, "KeyError: title")
                  ELSE [Show(o2, <<"pyplot">>) EXCEPT !.chart = Limit(c, ChartLimit)] :
                 t \in TopByRating(d.rows, TopLimit),
                 c \in TopByRating(d.rows, TopLimit)}

\* top_authors is a lazy query too: toPandas() is called twice.
InsightsView(o, p, d) ==
    LET o1 == Show(o, <<"title", "subheader">>)
    IN  IF "authors" \notin d.cols
        THEN {Raise(o1, "AnalysisException: authors")}
        ELSE {LET o2 == [Show(o1, <<"dataframe", "pyplot", "subheader">>)
                           EXCEPT !.authorsTable = t, !.authorsChart = c]
              IN  IF "average_rating" \notin p.cols
                  THEN Raise(o2, "KeyError: average_rating")
                  ELSE Show(o2, <<"pyplot">>) :
                 t \in TopAuthors(d.rows, AuthorsLimit),
                 c \in TopAuthors(d.rows, AuthorsLimit)}

\* spark.read.csv(uploaded, header=True, inferSchema=True) is handed the
\* uploader's file object: the reader either refuses it (it takes paths) or
\* parses it into new_df.
UploadView(o, uploaded) ==
    LET o1 == [Show(o, <<"title", "file_uploader">>) EXCEPT !.uploaded = uploaded]
    IN  IF uploaded = NoFile THEN {o1}
        ELSE {Raise(o1, "TypeError: path"),
              [Show(o1, <<"success", "write", "dataframe">>)
                 EXCEPT !.uploadPreview = Limit(uploaded.rows, PreviewRows)]}

ThankYou == <<"Thank", "you", "for", "your", "feedback!">>

PleaseFill == <<"Please", "fill", "in", "all", "fields.">>

\* `if name or feedback`
EitherGiven(name, feedback) == name # << >> \/ feedback # << >>

\* `if name and feedback`: a string is true when it is not empty.
BothGiven(name, feedback) == name # << >> /\ feedback # << >>

FeedbackView(o, name, feedback, pressed) ==
    LET o1 == [Show(o, <<"title", "text_input", "text_area", "button">>)
                 EXCEPT !.name = name, !.feedback = feedback, !.pressed = pressed]
    IN  IF ~pressed THEN o1
        ELSE IF BothGiven(name, feedback)
        THEN [Show(o1, <<"success">>) EXCEPT !.message = ThankYou]
        ELSE [Show(o1, <<"warning">>) EXCEPT !.message = PleaseFill]

\* The widgets' values when the user touched none of them.
Defaults ==
    [search |-> << >>, uploaded |-> NoFile, name |-> << >>, feedback |-> << >>,
     pressed |-> FALSE]

\* The outcomes of the branch i of the chain.
Branch(i, o, p, d, in) ==
    CASE i = 1 -> {HomeView(o)}
      [] i = 2 -> {DashboardView(o, p, d)}
      [] i = 3 -> {SearchView(o, d, in.search)}
      [] i = 4 -> TopRatedView(o, d)
      [] i = 5 -> InsightsView(o, p, d)
      [] i = 6 -> UploadView(o, in.uploaded)
      [] OTHER -> {FeedbackView(o, in.name, in.feedback, in.pressed)}

\* The if/elif chain: the outcomes of the branch taken, or nothing rendered.
Dispatch(page, o, p, d, in) ==
    IF Taken(page) = {} THEN {o}
    ELSE UNION {Branch(i, [o EXCEPT !.taken = Taken(page)], p, d, in) :
                  i \in Taken(page)}

\* ------------------------------------------------------------- script runs
\* What the user can put in the widgets.
FeedbackTexts == {<< >>, <<"a">>, <<" ">>}

UploadCSVs == {t \in SchemaCSVs : Len(t.rows) = 1 /\ t.rows[1].average_rating = NullNum}

\* The top of the script: pdf = load_data().
Loaded == CachedLoad(cache, remote)

AfterLoad ==
    [Blank EXCEPT !.fetched = Loaded.fetched,
                  !.load = IF Loaded.cache.failed THEN "error" ELSE ""]

LoadStep ==
    /\ cache' = Loaded.cache
    /\ fetches' = fetches + (IF Loaded.fetched THEN 1 ELSE 0)
    /\ pdf' = Loaded.cache.value
    /\ remote' = remote

\* One run of the script that gets past the emptiness check, with the radio on
\* page and the widgets holding in.
Run(page, in) ==
    /\ LoadStep
    /\ ~Stops(Loaded.cache.value)
    /\ df' = CreateDataFrame(Loaded.cache.value)
    /\ out' \in Dispatch(page, [AfterLoad EXCEPT !.page = page],
                         Loaded.cache.value,
                         CreateDataFrame(Loaded.cache.value), in)

\* A run that st.stop() ends before the sidebar: df is never bound.
RunStopped ==
    /\ LoadStep
    /\ Stops(Loaded.cache.value)
    /\ df' = Unbound
    /\ out' = [AfterLoad EXCEPT !.stopped = TRUE]

\* A run is started by the browser opening the page or by the user changing a
\* widget.  A widget holds a value of the user's only if the run before showed
\* it; the radio holds its first option until the user, who has seen it, picks
\* another.
RadioShown == out.page # ""

\* The user moved the radio to its i-th option.
Picked(i) == RadioShown /\ out.page # NavOptions[i]

OnPage(i) == out.page = NavOptions[i] /\ out.taken = {i}

\* The user typed one more character into the box.
Typed(old, new) ==
    Len(new) = Len(old) + 1 /\ SubSeq(new, 1, Len(old)) = old

RunHome == (~RadioShown \/ Picked(1)) /\ Run(NavOptions[1], Defaults)

RunDashboard == Picked(2) /\ Run(NavOptions[2], Defaults)

RunSearch ==
    \E search \in InputStrings(MaxLen) :
        /\ RadioShown
        /\ search = << >> \/ (OnPage(3) /\ Typed(out.search, search))
        /\ Run(NavOptions[3], [Defaults EXCEPT !.search = search])

RunTopRated == Picked(4) /\ Run(NavOptions[4], Defaults)

RunInsights == Picked(5) /\ Run(NavOptions[5], Defaults)

\* A run of the Upload page that binds the uploaded table to df, not new_df.
RunUploadRebinds ==
    \E uploaded \in UploadCSVs \cup {NoFile} :
        /\ RadioShown
        /\ uploaded = NoFile \/ OnPage(6)
        /\ LoadStep
        /\ ~Stops(Loaded.cache.value)
        /\ df' = IF uploaded = NoFile
                 THEN CreateDataFrame(Loaded.cache.value) ELSE uploaded
        /\ out' \in Dispatch(NavOptions[6], [AfterLoad EXCEPT !.page = NavOptions[6]],
                             Loaded.cache.value,
                             CreateDataFrame(Loaded.cache.value),
                             [Defaults EXCEPT !.uploaded = uploaded])

RunUpload ==
    \E uploaded \in UploadCSVs \cup {NoFile} :
        /\ RadioShown
        /\ uploaded = NoFile \/ OnPage(6)
        /\ Run(NavOptions[6], [Defaults EXCEPT !.uploaded = uploaded])

RunFeedback ==
    \E name \in FeedbackTexts, feedback \in FeedbackTexts, pressed \in BOOLEAN :
        /\ RadioShown
        /\ (name = << >> /\ feedback = << >> /\ ~pressed) \/ OnPage(7)
        /\ Run(NavOptions[7],
               [Defaults EXCEPT !.name = name, !.feedback = feedback,
                                !.pressed = pressed])

\* The chain entered with a page that is none of the radio's options.
UnlistedKey == "Settings"

RunUnlisted == RadioShown /\ out.page # UnlistedKey /\ Run(UnlistedKey, Defaults)

\* The process starts with nothing cached; the URL serves one of the tables
\* of S, or fails.
InitWith(S) ==
    /\ remote \in S \cup {Unavailable}
    /\ cache = NoCache
    /\ fetches = 0
    /\ pdf = Unbound
    /\ df = Unbound
    /\ out = Blank

Init == InitWith(SchemaCSVs)

Next ==
    \/ RunStopped
    \/ RunHome
    \/ RunDashboard
    \/ RunSearch
    \/ RunTopRated
    \/ RunInsights
    \/ RunUpload
    \/ RunFeedback

Spec == Init /\ [][Next]_vars

\* The same script over the tables that exercise the search, the ranking and
\* the grouping.
InitSearch == InitWith(SearchCSVs)

SpecSearch == InitSearch /\ [][Next]_vars

InitRanking == InitWith(RatingCSVs)

SpecRanking == InitRanking /\ [][Next]_vars

InitAuthors == InitWith(AuthorCSVs)

SpecAuthors == InitAuthors /\ [][Next]_vars

\* The script with the if/elif chain exercised on any key, listed or not.
NextAnyKey == Next \/ RunUnlisted

SpecAnyKey == Init /\ [][NextAnyKey]_vars

\* ================================================================== claims
Shown(e) == e \in Range(out.shown)

Injective(s) == \A i, j \in DOMAIN s : s[i] = s[j] => i = j

\* ---------------------------------------------------------------------- C1
\* C1: when the fetch or the parse fails, load returns the empty frame, the
\* error element is on the page and no exception ends the run; and in every run
\* whose loaded frame is empty the script stops before the sidebar: no branch
\* of the chain is taken and no view element is rendered.
C1_EmptyLoadHalts ==
    cache.filled =>
        /\ remote = Unavailable =>
              /\ pdf = EmptyFrame
              /\ out.load = "error"
              /\ out.error = ""
        /\ IsEmpty(pdf) =>
              /\ out.stopped
              /\ out.page = ""
              /\ out.taken = {}
              /\ out.shown = << >>
              /\ df = Unbound

\* A rerun after a failed fetch: served from the cache, stopped again.
C1_Witness ==
    /\ remote = Unavailable
    /\ cache.filled
    /\ ~out.fetched
    /\ out.stopped
    /\ out.load = "error"

\* ---------------------------------------------------------------------- C2
\* C2: read_csv is called at most once in the life of the process: once the
\* cache entry is filled, by a table or by the empty frame of a failed fetch,
\* no later run fetches, the entry does not change and the run's pdf is the
\* cached value.
C2_FetchedAtMostOnce ==
    [][/\ fetches' <= 1
       /\ cache.filled =>
             /\ cache' = cache
             /\ fetches' = fetches
             /\ ~out'.fetched
             /\ pdf' = cache.value]_vars

\* A view selected in a later run, served from the cache.
C2_Witness ==
    /\ fetches = 1
    /\ ~out.fetched
    /\ out.page = NavOptions[3]
    /\ out.search # << >>
    /\ pdf = cache.value

\* ---------------------------------------------------------------------- C4
\* C4: after any sequence of runs, uploads included, the primary frames hold
\* what load produced from the remote CSV: same columns, same rows, same order;
\* an uploaded table is only previewed, and the Dashboard's numbers are those
\* of the primary table.
C4_PrimaryUntouched ==
    cache.filled =>
        /\ pdf = LoadDataBody(remote).value
        /\ cache.value = pdf
        /\ ~out.stopped => df = CreateDataFrame(pdf)
        /\ (out.page = NavOptions[2] /\ Shown("metric")) =>
              /\ out.books = Len(remote.rows)
              /\ out.preview = Limit(remote.rows, PreviewRows)
        /\ (out.page = NavOptions[6] /\ Shown("success")) =>
              out.uploadPreview = Limit(out.uploaded.rows, PreviewRows)

\* An upload of a table other than the primary one was parsed and previewed.
C4_Witness ==
    /\ out.page = NavOptions[6]
    /\ Shown("success")
    /\ out.uploaded # pdf
    /\ out.uploadPreview # << >>
    /\ df = CreateDataFrame(remote)

\* ---------------------------------------------------------------------- C5
\* C5: on a table without average_rating the Dashboard shows the missing
\* column as an error and still renders the preview and the total row count.
C5_DashboardIsolatesAverage ==
    (cache.filled /\ out.page = NavOptions[2] /\ "average_rating" \notin pdf.cols) =>
        /\ out.error = "AnalysisException: average_rating"
        /\ Shown("dataframe")
        /\ out.preview = Limit(pdf.rows, PreviewRows)
        /\ Shown("metric")
        /\ out.books = Len(pdf.rows)

\* ---------------------------------------------------------------------- C6
\* The form's fields a message names.
FieldsNamed(message) ==
    {f \in {"name", "feedback"} :
        \E i \in DOMAIN message :
            message[i] \in (IF f = "name" THEN {"name", "Name"}
                                          ELSE {"feedback", "Feedback"})}

MissingFields(name, feedback) ==
    (IF name = << >> THEN {"name"} ELSE {})
    \cup (IF feedback = << >> THEN {"feedback"} ELSE {})

Submitted == out.page = NavOptions[7] /\ out.pressed

\* C6 as claimed: on submit the acknowledgment appears iff both fields are
\* non-empty, and otherwise a warning that names exactly the missing fields.
C6_WarningNamesMissing ==
    Submitted =>
        /\ Shown("success") <=> (out.name # << >> /\ out.feedback # << >>)
        /\ ~Shown("success") =>
              /\ Shown("warning")
              /\ FieldsNamed(out.message) = MissingFields(out.name, out.feedback)

\* C6 as amended: on submit the acknowledgment appears iff both fields are
\* non-empty; otherwise the payload is the one fixed warning, which asks for
\* all fields and names none of them; without submit neither appears; and in
\* no case does the run change what the process keeps (the cache entry).
C6_FeedbackValidation ==
    out.page = NavOptions[7] =>
        /\ Submitted =>
              /\ Shown("success") <=> (out.name # << >> /\ out.feedback # << >>)
              /\ Shown("success") => out.message = ThankYou /\ ~Shown("warning")
              /\ ~Shown("success") =>
                    /\ Shown("warning")
                    /\ out.message = PleaseFill
                    /\ FieldsNamed(out.message) = {}
        /\ ~out.pressed => ~Shown("success") /\ ~Shown("warning")
        /\ cache = [filled |-> TRUE, value |-> pdf, failed |-> FALSE]
        /\ out.error = ""

\* The scenario of the specification: no name, a text, submit.
C6_Witness ==
    /\ Submitted
    /\ out.name = << >>
    /\ out.feedback # << >>
    /\ Shown("warning")

\* ---------------------------------------------------------------------- C7
Listed(page) == page \in Range(NavOptions)

Contains(v, t) ==
    /\ v # NullStr
    /\ \E i \in 1..(Len(v) - Len(t) + 1) : SubSeq(v, i, i + Len(t) - 1) = t

RECURSIVE LiteralFilter(_, _)
LiteralFilter(rs, t) ==
    IF rs = << >> THEN << >>
    ELSE (IF Contains(Head(rs).title, t) \/ Contains(Head(rs).authors, t)
          THEN <<Head(rs)>> ELSE << >>)
         \o LiteralFilter(Tail(rs), t)

\* C3: for a non-empty term the Search results are the rows in which the term
\* occurs literally in the title or in the authors (the first 20 of them), and
\* the search of such a term does not fail.
C3_LiteralSubstring ==
    (out.page = NavOptions[3] /\ out.search # << >> /\ out.taken = {3}) =>
        /\ Shown("dataframe")
        /\ out.results = Limit(LiteralFilter(df.rows, out.search), SearchLimit)

\* ---------------------------------------------------------------------- C8
Rating(r) == r.average_rating

\* Non-increasing in average_rating, the rows without a rating last.
NonIncreasingNullsLast(t) ==
    \A i, j \in DOMAIN t :
        i < j => /\ Rating(t[i]) = NullNum => Rating(t[j]) = NullNum
                 /\ Rating(t[j]) # NullNum => Rating(t[i]) >= Rating(t[j])

\* r ranks strictly above q.
RanksAbove(r, q) ==
    Rating(r) # NullNum /\ (Rating(q) = NullNum \/ Rating(r) > Rating(q))

\* t is a ranking of the k best rows of rs: min(k, |rs|) different rows of rs,
\* non-increasing with nulls last, and no row left out ranks above a row in it.
IsTopK(t, rs, k) ==
    /\ Len(t) = Min(k, Len(rs))
    /\ Range(t) \subseteq Range(rs)
    /\ Injective(t)
    /\ NonIncreasingNullsLast(t)
    /\ \A r \in Range(rs) \ Range(t) : \A q \in Range(t) : ~RanksAbove(r, q)

\* The stable descending sort of rs: ties keep the order they have in rs.
StableDesc(rs) ==
    LET p == CHOOSE q \in Perms(Len(rs)) :
                \A i, j \in 1..Len(rs) :
                    i < j => \/ RanksAbove(rs[q[i]], rs[q[j]])
                             \/ (~RanksAbove(rs[q[j]], rs[q[i]]) /\ q[i] < q[j])
    IN  [i \in 1..Len(rs) |-> rs[p[i]]]

Ratings(t) == [i \in DOMAIN t |-> Rating(t[i])]

TopRatedRendered == out.page = NavOptions[4] /\ Shown("pyplot")

BooksOf(rs, a) == Cardinality({i \in DOMAIN rs : rs[i].authors = a})

AuthorValues(rs) == {rs[i].authors : i \in DOMAIN rs}

RECURSIVE SumCounts(_)
SumCounts(t) ==
    IF t = << >> THEN 0 ELSE Head(t).book_count + SumCounts(Tail(t))

FirstRow(rs, a) ==
    CHOOSE i \in DOMAIN rs :
        rs[i].authors = a /\ \A j \in 1..(i - 1) : rs[j].authors # a

\* t lists k groups of largest count, each once, with its count, in an order of
\* non-increasing counts.
IsTopGroups(t, rs, k) ==
    /\ Len(t) = Min(k, Cardinality(AuthorValues(rs)))
    /\ Injective([i \in DOMAIN t |-> t[i].authors])
    /\ \A i \in DOMAIN t :
          /\ t[i].authors \in AuthorValues(rs)
          /\ t[i].book_count = BooksOf(rs, t[i].authors)
    /\ \A i, j \in DOMAIN t : i < j => t[i].book_count >= t[j].book_count
    /\ \A a \in AuthorValues(rs) \ {t[i].authors : i \in DOMAIN t} :
          \A i \in DOMAIN t : BooksOf(rs, a) <= t[i].book_count

InsightsRendered == out.page = NavOptions[5] /\ Shown("dataframe")

\* C9 as claimed: null is not a group, so the counts of all groups sum to the
\* number of rows with an author; at most 10 groups, counts non-increasing,
\* groups of equal count in the order they first occur in D.
C9_AuthorGrouping ==
    InsightsRendered =>
        /\ \A i \in DOMAIN out.authorsTable : out.authorsTable[i].authors # NullStr
        /\ \A t \in TopAuthors(df.rows, Len(df.rows)) :
              SumCounts(t) = Len(df.rows) - BooksOf(df.rows, NullStr)
        /\ Len(out.authorsTable) <= AuthorsLimit
        /\ \A i, j \in DOMAIN out.authorsTable :
              i < j =>
                \/ out.authorsTable[i].book_count > out.authorsTable[j].book_count
                \/ /\ out.authorsTable[i].book_count = out.authorsTable[j].book_count
                   /\ FirstRow(df.rows, out.authorsTable[i].authors)
                        < FirstRow(df.rows, out.authorsTable[j].authors)

\* C9 as amended: the rows with a null authors form a group of their own, so
\* the counts of all groups sum to |D|; the table and the chart each list at
\* most 10 groups of largest count with non-increasing counts, for every limit
\* k min(k, number of groups) of them; the order among groups of equal count
\* is not determined.
C9_AuthorGroupCounts ==
    InsightsRendered =>
        /\ \A t \in TopAuthors(df.rows, Len(df.rows)) :
              SumCounts(t) = Len(df.rows)
        /\ Len(out.authorsTable) <= AuthorsLimit
        /\ IsTopGroups(out.authorsTable, df.rows, AuthorsLimit)
        /\ IsTopGroups(out.authorsChart, df.rows, AuthorsLimit)
        /\ \A k \in 0..MaxLimit :
              \A t \in TopAuthors(df.rows, k) : IsTopGroups(t, df.rows, k)

\* Books without an author are shown as a group, and two groups of equal count
\* are listed against the order of their first rows.
C9_Witness ==
    /\ InsightsRendered
    /\ \E i \in DOMAIN out.authorsTable : out.authorsTable[i].authors = NullStr
    /\ \E i, j \in DOMAIN out.authorsTable :
          /\ i < j
          /\ out.authorsTable[i].book_count = out.authorsTable[j].book_count
          /\ FirstRow(df.rows, out.authorsTable[i].authors)
               > FirstRow(df.rows, out.authorsTable[j].authors)
    /\ \E k \in 1..MaxLimit : k < Cardinality(AuthorValues(df.rows))

\* --------------------------------------------------------------------- C10
\* The table t without its ratings_count column.
WithoutRatingsCount(t) == Table(t.cols \ {"ratings_count"}, t.rows)

\* The Dashboard of the table t, on a blank page.
DashboardOf(t) == DashboardView(Blank, t, CreateDataFrame(t))

====
